---- MODULE Spec2Model ----
(***************************************************************************)
(* Model of the ledger/valuation engine of src/crypto_tracker.py           *)
(* (class CryptoTracker over a SQLite store with three tables).            *)
(*                                                                         *)
(* Number representation.  The code uses binary floating point; the model  *)
(* uses exact integers:                                                    *)
(*   - a quantity q of the model stands for q/2 coins (halves of a coin),  *)
(*     so 0.5 is 1, 1.0 is 2 and 1.5 is 3;                                 *)
(*   - a price is a whole number of USD;                                   *)
(*   - avg_cost, which the code rounds to 8 decimals, is the record        *)
(*     [whole |-> w, frac |-> f] standing for w + f/10^8 USD, 0 <= f <     *)
(*     10^8 (w is the floor, so a negative value -0.5 is [-1, 50000000]);  *)
(*   - the amounts get_portfolio rounds to 2 decimals are whole cents      *)
(*     and pnl_pct is in hundredths of a percent.                          *)
(***************************************************************************)
EXTENDS Integers, Sequences, FiniteSets, TLC

VARIABLES
  holdings,      \* table holdings, committed rows in rowid order
  transactions,  \* table transactions, committed rows in rowid order
  prices,        \* table prices, committed rows in rowid order
  result,        \* the last call that ended: what it returned or raised
  pc,            \* per process: the statement it is about to run
  writer,        \* the process that holds SQLite's write lock, or "free"
  work,          \* per process: the database as its open transaction sees it
  local,         \* per process: the local variables of its call
  report         \* the file export_report writes, as it is on disk

vars ==
  <<holdings, transactions, prices, result, pc, writer, work, local, report>>
store == <<holdings, transactions, prices>>
procs == <<pc, writer, work, local>>

(***************************************************************************)
(* Bounds of the model                                                     *)
(***************************************************************************)
MaxTx == 2
MaxPrices == 1

(***************************************************************************)
(* Inputs                                                                  *)
(***************************************************************************)
RawSymbols == {"btc", "BTC", "eth"}
Symbols == {"BTC", "ETH"}
\* <<name, time of the call>> of a registration
RegInputs == {<<"Bitcoin", 1>>}
\* <<tx_type, quantity, price>> of a transaction: buys and sells, a type
\* that is neither, and quantities that are not positive
TxInputs == {<<"buy", 1, 1>>, <<"buy", 2, 2>>,
             <<"sell", 1, 2>>, <<"sell", 2, 2>>,
             <<"transfer", 1, 1>>, <<"buy", 0, 1>>, <<"buy", -1, 5>>}
\* the symbols as typed in the calls that append to a log
LogSymbols == {"btc", "eth"}
Prices == {2}
\* the time of the calls that append to a log
LogTimes == {3}
\* the processes (CLI invocations) that share the database file
Procs == {"p1", "p2"}

\* str.upper() on the symbols the model feeds in
upper(raw) ==
  CASE raw = "btc" -> "BTC"
    [] raw = "BTC" -> "BTC"
    [] raw = "eth" -> "ETH"
    [] raw = "ETH" -> "ETH"
    [] OTHER -> raw

(***************************************************************************)
(* Arithmetic helpers                                                      *)
(***************************************************************************)
E8 == 100000000

Max(a, b) == IF a >= b THEN a ELSE b

\* Python's round(): n/d to the nearest integer, ties to the even one (d > 0)
RoundHalfEven(n, d) ==
  LET q == n \div d
      r == n % d
  IN  IF r < d - r THEN q
      ELSE IF r > d - r THEN q + 1
      ELSE IF q % 2 = 0 THEN q ELSE q + 1

ZeroCost == [whole |-> 0, frac |-> 0]

\* round(total_cost / total_qty, 8) for total_qty > 0
Round8(total_cost, total_qty) ==
  LET w == total_cost \div total_qty
      f == RoundHalfEven((total_cost % total_qty) * E8, total_qty)
  IN  IF f = E8 THEN [whole |-> w + 1, frac |-> 0]
      ELSE [whole |-> w, frac |-> f]

(***************************************************************************)
(* Rows of the three tables                                                *)
(***************************************************************************)
\* dataclass Holding as add_holding builds it
Holding(symbol, name, now) ==
  [symbol |-> symbol, name |-> name, total_qty |-> 0, avg_cost |-> ZeroCost,
   current_price |-> 0, created_at |-> now]

\* dataclass Transaction with the default fee and exchange
Transaction(symbol, tx_type, quantity, price, now) ==
  [symbol |-> symbol, tx_type |-> tx_type, quantity |-> quantity,
   price_usd |-> price, fee_usd |-> 0, exchange |-> "manual", tx_date |-> now]

\* dataclass PriceRecord with the default source
PriceRecord(symbol, price, now) ==
  [symbol |-> symbol, price_usd |-> price, source |-> "manual",
   recorded_at |-> now]

(***************************************************************************)
(* SQL statements as operators on table values                             *)
(***************************************************************************)
HasHolding(hs, symbol) == \E i \in 1..Len(hs) : hs[i].symbol = symbol

\* INSERT OR REPLACE INTO holdings: the conflicting row is deleted
InsertOrReplaceHolding(hs, h) ==
  Append(SelectSeq(hs, LAMBDA r : r.symbol # h.symbol), h)

\* INSERT OR IGNORE INTO holdings: the UNIQUE(symbol) conflict drops the row
InsertOrIgnoreHolding(hs, h) ==
  IF HasHolding(hs, h.symbol) THEN hs ELSE Append(hs, h)

\* an insert that overwrites the newest row of the table
ReplaceNewestRow(table, row) ==
  IF table = <<>> THEN <<row>> ELSE [table EXCEPT ![Len(table)] = row]

\* INSERT INTO transactions / prices
InsertRow(table, row) == Append(table, row)

\* SELECT tx_type, quantity, price_usd FROM transactions WHERE symbol=?
SelectTransactions(txs, symbol) ==
  SelectSeq(txs, LAMBDA r : r.symbol = symbol)

\* the loop with a cost that a sell reduces by the sold share
RECURSIVE AccumulateSoldShare(_, _, _)
AccumulateSoldShare(rows, total_qty, total_cost) ==
  IF rows = <<>> THEN [total_qty |-> total_qty, total_cost |-> total_cost]
  ELSE LET r == Head(rows)
       IN  IF r.tx_type = "buy"
           THEN AccumulateSoldShare(Tail(rows), total_qty + r.quantity,
                                    total_cost + r.quantity * r.price_usd)
           ELSE AccumulateSoldShare(Tail(rows), total_qty - r.quantity,
                  IF total_qty > 0
                  THEN total_cost - (r.quantity * total_cost) \div total_qty
                  ELSE total_cost)

\* the loop of record_transaction over the selected rows
RECURSIVE Accumulate(_, _, _)
Accumulate(rows, total_qty, total_cost) ==
  IF rows = <<>> THEN [total_qty |-> total_qty, total_cost |-> total_cost]
  ELSE LET r == Head(rows)
       IN  IF r.tx_type = "buy"
           THEN Accumulate(Tail(rows), total_qty + r.quantity,
                           total_cost + r.quantity * r.price_usd)
           ELSE Accumulate(Tail(rows), total_qty - r.quantity, total_cost)

\* the values of the UPDATE without the max(0.0, total_qty)
RecalculateUnclamped(rows) ==
  LET acc == Accumulate(rows, 0, 0)
      avg_cost == IF acc.total_qty > 0
                  THEN Round8(acc.total_cost, acc.total_qty)
                  ELSE ZeroCost
  IN  [total_qty |-> acc.total_qty, avg_cost |-> avg_cost]

\* the values record_transaction binds to its UPDATE
Recalculate(rows) ==
  LET acc == Accumulate(rows, 0, 0)
      avg_cost == IF acc.total_qty > 0
                  THEN Round8(acc.total_cost, acc.total_qty)
                  ELSE ZeroCost
  IN  [total_qty |-> Max(0, acc.total_qty), avg_cost |-> avg_cost]

\* UPDATE holdings ... WHERE symbol=? that inserts the row it does not find
UpsertAggregate(hs, symbol, agg) ==
  IF HasHolding(hs, symbol)
  THEN [i \in 1..Len(hs) |->
          IF hs[i].symbol = symbol
          THEN [hs[i] EXCEPT !.total_qty = agg.total_qty,
                             !.avg_cost = agg.avg_cost]
          ELSE hs[i]]
  ELSE Append(hs, [Holding(symbol, symbol, 0) EXCEPT
                     !.total_qty = agg.total_qty, !.avg_cost = agg.avg_cost])

\* UPDATE holdings SET total_qty=?, avg_cost=? WHERE symbol=?
UpdateAggregate(hs, symbol, agg) ==
  [i \in 1..Len(hs) |->
     IF hs[i].symbol = symbol
     THEN [hs[i] EXCEPT !.total_qty = agg.total_qty, !.avg_cost = agg.avg_cost]
     ELSE hs[i]]

\* UPDATE holdings SET current_price=? without the WHERE clause
UpdateCurrentPriceOfAll(hs, symbol, price) ==
  [i \in 1..Len(hs) |-> [hs[i] EXCEPT !.current_price = price]]

\* UPDATE holdings SET current_price=? WHERE symbol=?
UpdateCurrentPrice(hs, symbol, price) ==
  [i \in 1..Len(hs) |->
     IF hs[i].symbol = symbol
     THEN [hs[i] EXCEPT !.current_price = price]
     ELSE hs[i]]

(***************************************************************************)
(* The operations, each one SQLite transaction                             *)
(***************************************************************************)
NoWork == [holdings |-> <<>>, transactions |-> <<>>, prices |-> <<>>]
NoLocal == [op |-> "none"]
NoResult == [op |-> "none", outcome |-> "none"]
\* no file at the output path yet
NoReport == [generator |-> "none"]
\* a call that returned value, and a call that raised error
Returned(op, value) == [op |-> op, outcome |-> "ok", value |-> value]
RaisedBy(op, error) == [op |-> op, outcome |-> error]
\* what is left of a call that raised: the statement the exception came from
Raised(at) == [op |-> "raised", at |-> at]

Init ==
  /\ holdings = <<>>
  /\ transactions = <<>>
  /\ prices = <<>>
  /\ result = NoResult
  /\ pc = [p \in Procs |-> "idle"]
  /\ writer = "free"
  /\ work = [p \in Procs |-> NoWork]
  /\ local = [p \in Procs |-> NoLocal]
  /\ report = NoReport

\* add_holding returns h; nothing in it raises
add_holding(raw, name, now) ==
  LET h == Holding(upper(raw), name, now)
  IN  /\ holdings' = InsertOrIgnoreHolding(holdings, h)
      /\ result' = Returned("add_holding", h)
      /\ UNCHANGED <<transactions, prices, procs, report>>

\* record_transaction: INSERT, SELECT, loop, UPDATE in one transaction
record_transaction(raw, tx_type, quantity, price, now) ==
  LET symbol == upper(raw)
      tx == Transaction(symbol, tx_type, quantity, price, now)
      txs == InsertRow(transactions, tx)
      agg == Recalculate(SelectTransactions(txs, symbol))
  IN  /\ transactions' = txs
      /\ holdings' = UpdateAggregate(holdings, symbol, agg)
      /\ result' = Returned("record_transaction", tx)
      /\ UNCHANGED <<prices, procs, report>>

\* update_price: INSERT and UPDATE in one transaction
update_price(raw, price, now) ==
  LET symbol == upper(raw)
      rec == PriceRecord(symbol, price, now)
  IN  /\ prices' = InsertRow(prices, rec)
      /\ holdings' = UpdateCurrentPrice(holdings, symbol, price)
      /\ result' = Returned("update_price", rec)
      /\ UNCHANGED <<transactions, procs, report>>

AddHolding ==
  \E raw \in RawSymbols, reg \in RegInputs :
    add_holding(raw, reg[1], reg[2])

RecordTransaction ==
  \E raw \in LogSymbols, tx \in TxInputs :
    /\ Len(transactions) < MaxTx
    /\ \E now \in LogTimes : record_transaction(raw, tx[1], tx[2], tx[3], now)

UpdatePrice ==
  \E raw \in LogSymbols, price \in Prices :
    /\ Len(prices) < MaxPrices
    /\ \E now \in LogTimes : update_price(raw, price, now)

Next == AddHolding \/ RecordTransaction \/ UpdatePrice

Spec == Init /\ [][Next]_vars

(***************************************************************************)
(* Valuation: get_portfolio                                                *)
(***************************************************************************)
RECURSIVE GCD(_, _)
GCD(a, b) == IF b = 0 THEN a ELSE GCD(b, a % b)

\* one digit of the decimal expansion of r/den, 0 <= r < den:
\* <<the digit, the next remainder>>
DecimalDigit(r, den) ==
  LET dq == den \div 10
      dr == den % 10
      k  == CHOOSE d \in 0..9 :
              /\ r >= d * dq + (d * dr + 9) \div 10
              /\ \A e \in (d + 1)..9 : r < e * dq + (e * dr + 9) \div 10
  IN  <<k, 10 * (r - k * dq) - k * dr>>

RECURSIVE Expand(_, _, _, _)
Expand(q, r, den, digits) ==
  IF digits = 0 THEN <<q, r>>
  ELSE LET d == DecimalDigit(r, den)
       IN  Expand(10 * q + d[1], d[2], den, digits - 1)

\* round(num / den * 100, 2) in hundredths, i.e. round(num / den * 10^4),
\* by long division (den > 0)
RoundPct(num, den) ==
  LET e == Expand(num \div den, num % den, den, 4)
      q == e[1]
      r == e[2]
  IN  IF r < den - r THEN q
      ELSE IF r > den - r THEN q + 1
      ELSE IF q % 2 = 0 THEN q ELSE q + 1

\* the fields get_portfolio adds to a holdings row h with rowid id
Annotate(h, id) ==
  LET tq   == h.total_qty
      g    == GCD(E8, h.avg_cost.frac)
      k    == E8 \div g
      \* pnl / cost_basis = (current_price - avg_cost) / avg_cost = num / den
      num  == (h.current_price - h.avg_cost.whole) * k - h.avg_cost.frac \div g
      den  == h.avg_cost.whole * k + h.avg_cost.frac \div g
  IN  [id |-> id, symbol |-> h.symbol, name |-> h.name,
       total_qty |-> tq, avg_cost |-> h.avg_cost,
       current_price |-> h.current_price, created_at |-> h.created_at,
       \* cents: total_qty is in halves, so total_qty * price * 100 / 2
       market_value |-> tq * h.current_price * 50,
       cost_basis |-> tq * h.avg_cost.whole * 50
                      + RoundHalfEven(tq * h.avg_cost.frac, 2000000),
       unrealized_pnl |-> tq * (h.current_price - h.avg_cost.whole) * 50
                          + RoundHalfEven(0 - tq * h.avg_cost.frac, 2000000),
       pnl_pct |-> IF tq > 0 /\ den > 0 THEN RoundPct(num, den) ELSE 0]

\* no ORDER BY: the rows come as the table scan finds them, by rowid
RECURSIVE OrderByRowid(_, _)
OrderByRowid(hs, ids) ==
  IF ids = {} THEN <<>>
  ELSE LET first == CHOOSE i \in ids : \A j \in ids : i <= j
       IN  <<first>> \o OrderByRowid(hs, ids \ {first})

\* ORDER BY (total_qty * current_price) DESC over the rowids in ids; rows
\* with equal keys come in rowid order
RECURSIVE OrderByValueDesc(_, _)
OrderByValueDesc(hs, ids) ==
  IF ids = {} THEN <<>>
  ELSE LET first == CHOOSE i \in ids :
             \A j \in ids :
               \/ hs[i].total_qty * hs[i].current_price
                    > hs[j].total_qty * hs[j].current_price
               \/ /\ hs[i].total_qty * hs[i].current_price
                       = hs[j].total_qty * hs[j].current_price
                  /\ i <= j
       IN  <<first>> \o OrderByValueDesc(hs, ids \ {first})

\* no WHERE clause: the rowids of all rows
WhereAnyQty(hs) == 1..Len(hs)

\* WHERE total_qty > 0: the rowids of the selected rows
WherePositiveQty(hs) == {i \in 1..Len(hs) : hs[i].total_qty > 0}

\* get_portfolio on the committed holdings table hs
get_portfolio(hs) ==
  LET rows == OrderByValueDesc(hs, WherePositiveQty(hs))
  IN  [n \in 1..Len(rows) |-> Annotate(hs[rows[n]], rows[n])]

(***************************************************************************)
(* The operations on the amounts of the documented BTC scenario            *)
(***************************************************************************)
MaxScenarioTx == 3
ScenarioSymbols == {"btc"}
ScenarioRegInputs == {<<"Bitcoin", 1>>}
\* 0.5 or 1.0 coins bought or sold at 50000, 70000 or 80000
ScenarioTxInputs ==
  {"buy", "sell"} \X {1, 2} \X {50000, 70000, 80000}
ScenarioPrices == {65000}

AddHoldingScenario ==
  \E raw \in ScenarioSymbols, reg \in ScenarioRegInputs :
    add_holding(raw, reg[1], reg[2])

RecordTransactionScenario ==
  \E raw \in ScenarioSymbols, tx \in ScenarioTxInputs :
    /\ Len(transactions) < MaxScenarioTx
    /\ \E now \in LogTimes : record_transaction(raw, tx[1], tx[2], tx[3], now)

UpdatePriceScenario ==
  \E raw \in ScenarioSymbols, price \in ScenarioPrices :
    /\ Len(prices) < MaxPrices
    /\ \E now \in LogTimes : update_price(raw, price, now)

NextScenario ==
  AddHoldingScenario \/ RecordTransactionScenario \/ UpdatePriceScenario

SpecScenario == Init /\ [][NextScenario]_vars

(***************************************************************************)
(* The operations with registrations under several names and at several    *)
(* times                                                                   *)
(***************************************************************************)
RegisterRegInputs == {<<"Bitcoin", 1>>, <<"Coin", 2>>}
RegisterTxInputs == {<<"buy", 2, 2>>}
RegisterPrices == {3}

AddHoldingRegister ==
  \E raw \in RawSymbols, reg \in RegisterRegInputs :
    add_holding(raw, reg[1], reg[2])

RecordTransactionRegister ==
  \E raw \in LogSymbols, tx \in RegisterTxInputs :
    /\ Len(transactions) < MaxTx
    /\ \E now \in LogTimes : record_transaction(raw, tx[1], tx[2], tx[3], now)

UpdatePriceRegister ==
  \E raw \in LogSymbols, price \in RegisterPrices :
    /\ Len(prices) < MaxPrices
    /\ \E now \in LogTimes : update_price(raw, price, now)

NextRegister ==
  AddHoldingRegister \/ RecordTransactionRegister \/ UpdatePriceRegister

SpecRegister == Init /\ [][NextRegister]_vars

(***************************************************************************)
(* The same operations statement by statement, run by concurrent           *)
(* processes on one database file.                                         *)
(*                                                                         *)
(* sqlite3.connect() leaves the connection in Python's default mode: the   *)
(* first INSERT or UPDATE of a with-block opens a transaction, which in    *)
(* WAL mode has to take the single write lock; the statements that follow  *)
(* see the committed database plus the transaction's own changes; leaving  *)
(* the with-block commits, an exception in it rolls back.  A statement     *)
(* that finds the lock taken waits and, when the wait expires, raises      *)
(* sqlite3.OperationalError (database is locked).                          *)
(***************************************************************************)
\* <<tx_type, quantity, price>> of the transactions the processes record
ConcTxInputs == {<<"buy", 2, 2>>, <<"sell", 1, 2>>}
ConcSymbols == {"btc", "eth"}
\* the symbol the processes register and price
ConcHeldSymbols == {"btc"}
ConcRegInputs == {<<"Bitcoin", 1>>}
ConcPrices == {2}

Committed ==
  [holdings |-> holdings, transactions |-> transactions, prices |-> prices]

\* no write lock at all
NoWriteLock == TRUE

\* the write lock is exclusive: a transaction starts only when it is free
WriteLockFree == writer = "free"

\* leaving the with-block normally: the transaction's changes are published
AfterCommit(p) == work[p]

\* the changes made so far are kept when the transaction ends in an error
KeepPartial(p) == work[p]

\* leaving the with-block by an exception, or the process dying: the
\* transaction's changes are dropped
AfterRollback(p) == Committed

Install(db) ==
  /\ holdings' = db.holdings
  /\ transactions' = db.transactions
  /\ prices' = db.prices

InTransaction ==
  {"rt_select", "rt_update", "rt_commit", "up_update", "up_commit",
   "ah_commit"}
AtFirstStatement == {"rt_insert", "up_insert", "ah_insert"}
RecordingNow == {p \in Procs : pc[p] \in {"rt_insert", "rt_select",
                                           "rt_update", "rt_commit"}}
PricingNow == {p \in Procs : pc[p] \in {"up_insert", "up_update",
                                         "up_commit"}}

\* record_transaction up to the with-block: symbol.upper(), Transaction(...)
rt_call(p, raw, tx_type, quantity, price, now) ==
  /\ pc[p] = "idle"
  /\ Len(transactions) + Cardinality(RecordingNow) < MaxTx
  /\ local' = [local EXCEPT ![p] =
       [op |-> "record_transaction", symbol |-> upper(raw),
        value |-> Transaction(upper(raw), tx_type, quantity, price, now),
        rows |-> <<>>]]
  /\ pc' = [pc EXCEPT ![p] = "rt_insert"]
  /\ UNCHANGED <<store, report, result, writer, work>>

\* INSERT INTO transactions, the first statement: takes the write lock
rt_insert(p) ==
  /\ pc[p] = "rt_insert"
  /\ WriteLockFree
  /\ writer' = p
  /\ work' = [work EXCEPT ![p] =
       [Committed EXCEPT !.transactions = InsertRow(transactions, local[p].value)]]
  /\ pc' = [pc EXCEPT ![p] = "rt_select"]
  /\ UNCHANGED <<store, report, result, local>>

\* SELECT ... FROM transactions WHERE symbol=?, inside the transaction
rt_select(p) ==
  /\ pc[p] = "rt_select"
  /\ local' = [local EXCEPT ![p].rows =
       SelectTransactions(work[p].transactions, local[p].symbol)]
  /\ pc' = [pc EXCEPT ![p] = "rt_update"]
  /\ UNCHANGED <<store, report, result, writer, work>>

\* the loop over rows and UPDATE holdings SET total_qty=?, avg_cost=?
rt_update(p) ==
  /\ pc[p] = "rt_update"
  /\ work' = [work EXCEPT ![p].holdings =
       UpdateAggregate(work[p].holdings, local[p].symbol,
                       Recalculate(local[p].rows))]
  /\ pc' = [pc EXCEPT ![p] = "rt_commit"]
  /\ UNCHANGED <<store, report, result, writer, local>>

\* update_price up to the with-block
up_call(p, raw, price, now) ==
  /\ pc[p] = "idle"
  /\ Len(prices) + Cardinality(PricingNow) < MaxPrices
  /\ local' = [local EXCEPT ![p] =
       [op |-> "update_price", symbol |-> upper(raw), price |-> price,
        value |-> PriceRecord(upper(raw), price, now)]]
  /\ pc' = [pc EXCEPT ![p] = "up_insert"]
  /\ UNCHANGED <<store, report, result, writer, work>>

\* INSERT INTO prices, the first statement: takes the write lock
up_insert(p) ==
  /\ pc[p] = "up_insert"
  /\ WriteLockFree
  /\ writer' = p
  /\ work' = [work EXCEPT ![p] =
       [Committed EXCEPT !.prices = InsertRow(prices, local[p].value)]]
  /\ pc' = [pc EXCEPT ![p] = "up_update"]
  /\ UNCHANGED <<store, report, result, local>>

\* UPDATE holdings SET current_price=?
up_update(p) ==
  /\ pc[p] = "up_update"
  /\ work' = [work EXCEPT ![p].holdings =
       UpdateCurrentPrice(work[p].holdings, local[p].symbol, local[p].price)]
  /\ pc' = [pc EXCEPT ![p] = "up_commit"]
  /\ UNCHANGED <<store, report, result, writer, local>>

\* add_holding up to the with-block
ah_call(p, raw, name, now) ==
  /\ pc[p] = "idle"
  /\ local' = [local EXCEPT ![p] =
       [op |-> "add_holding", symbol |-> upper(raw),
        value |-> Holding(upper(raw), name, now)]]
  /\ pc' = [pc EXCEPT ![p] = "ah_insert"]
  /\ UNCHANGED <<store, report, result, writer, work>>

\* INSERT OR IGNORE INTO holdings, the only statement
ah_insert(p) ==
  /\ pc[p] = "ah_insert"
  /\ WriteLockFree
  /\ writer' = p
  /\ work' = [work EXCEPT ![p] =
       [Committed EXCEPT !.holdings = InsertOrIgnoreHolding(holdings, local[p].value)]]
  /\ pc' = [pc EXCEPT ![p] = "ah_commit"]
  /\ UNCHANGED <<store, report, result, local>>

\* the locals of q after another process has committed db: a running
\* export_report is given the committed states that its run overlaps with,
\* which the code does not keep
Overlapping(q, db) ==
  IF local[q].op = "export_report"
  THEN [local[q] EXCEPT !.snapshots = @ \cup {db}]
  ELSE local[q]

\* the end of a with-block: commit, the call returns
commit(p) ==
  /\ pc[p] \in {"rt_commit", "up_commit", "ah_commit"}
  /\ Install(AfterCommit(p))
  /\ writer' = "free"
  /\ work' = [work EXCEPT ![p] = NoWork]
  /\ local' = [q \in Procs |->
                 IF q = p THEN NoLocal ELSE Overlapping(q, AfterCommit(p))]
  /\ pc' = [pc EXCEPT ![p] = "idle"]
  /\ result' = Returned(local[p].op, local[p].value)
  /\ UNCHANGED report

\* an exception in the with-block (disk full, I/O error) or the death of
\* the process while its transaction is open: rollback
fail(p) ==
  /\ pc[p] \in InTransaction
  /\ Install(AfterRollback(p))
  /\ writer' = "free"
  /\ work' = [work EXCEPT ![p] = NoWork]
  /\ local' = [local EXCEPT ![p] = Raised(pc[p])]
  /\ pc' = [pc EXCEPT ![p] = "idle"]
  /\ result' = RaisedBy(local[p].op, "Storage")
  /\ UNCHANGED report

\* the first statement finds the write lock taken until its wait expires
busy(p) ==
  /\ pc[p] \in AtFirstStatement
  /\ ~WriteLockFree
  /\ local' = [local EXCEPT ![p] = NoLocal]
  /\ pc' = [pc EXCEPT ![p] = "idle"]
  /\ result' = RaisedBy(local[p].op, "Storage")
  /\ UNCHANGED <<store, report, writer, work>>

RtCall ==
  \E p \in Procs, raw \in ConcSymbols, tx \in ConcTxInputs, now \in LogTimes :
    rt_call(p, raw, tx[1], tx[2], tx[3], now)
RtInsert == \E p \in Procs : rt_insert(p)
RtSelect == \E p \in Procs : rt_select(p)
RtUpdate == \E p \in Procs : rt_update(p)
UpCall ==
  \E p \in Procs, raw \in ConcHeldSymbols, price \in ConcPrices, now \in LogTimes :
    up_call(p, raw, price, now)
UpInsert == \E p \in Procs : up_insert(p)
UpUpdate == \E p \in Procs : up_update(p)
AhCall ==
  \E p \in Procs, raw \in ConcHeldSymbols, reg \in ConcRegInputs :
    ah_call(p, raw, reg[1], reg[2])
AhInsert == \E p \in Procs : ah_insert(p)
Commit == \E p \in Procs : commit(p)
Fail == \E p \in Procs : fail(p)
Busy == \E p \in Procs : busy(p)

NextConc ==
  \/ RtCall \/ RtInsert \/ RtSelect \/ RtUpdate
  \/ UpCall \/ UpInsert \/ UpUpdate
  \/ AhCall \/ AhInsert
  \/ Commit \/ Fail \/ Busy

SpecConc == Init /\ [][NextConc]_vars

(***************************************************************************)
(* Valuation: calculate_pnl                                                *)
(***************************************************************************)
Abs(n) == IF n < 0 THEN 0 - n ELSE n

RECURSIVE SumField(_, _)
\* sum(h[field] for h in portfolio)
SumField(portfolio, field) ==
  IF portfolio = <<>> THEN 0
  ELSE Head(portfolio)[field] + SumField(Tail(portfolio), field)

\* the decimal digits of n, 0 <= n < 10^width, padded with zeros
RECURSIVE Digits(_, _)
Digits(n, width) ==
  IF width = 0 THEN ""
  ELSE Digits(n \div 10, width - 1) \o ToString(n % 10)

\* the ',' of a format specification: n >= 0 in groups of three digits
RECURSIVE Grouped(_)
Grouped(n) ==
  IF n < 1000 THEN ToString(n)
  ELSE Grouped(n \div 1000) \o "," \o Digits(n % 1000, 3)

\* f"${x:,.2f}" for an amount of cents
FormatMoney(cents) ==
  "$" \o (IF cents < 0 THEN "-" ELSE "")
      \o Grouped(Abs(cents) \div 100) \o "." \o Digits(Abs(cents) % 100, 2)

\* f"${x:+,.2f}" for an amount of cents
FormatSignedMoney(cents) ==
  "$" \o (IF cents < 0 THEN "-" ELSE "+")
      \o Grouped(Abs(cents) \div 100) \o "." \o Digits(Abs(cents) % 100, 2)

\* a / b as Python evaluates it: ZeroDivisionError when b is zero
Divide(a, b) == [error |-> b = 0, num |-> a, den |-> b]

\* f"{pct:+.2f}%" for pct = num / den * 100: the sign is the sign of the
\* value before it is rounded
FormatSignedPct(q) ==
  LET negative == (q.num < 0 /\ q.den > 0) \/ (q.num > 0 /\ q.den < 0)
      hundredths == RoundPct(Abs(q.num), Abs(q.den))
  IN  (IF negative THEN "-" ELSE "+")
      \o ToString(hundredths \div 100) \o "." \o Digits(hundredths % 100, 2)
      \o "%"

\* the division is made whatever total_cost is
AlwaysTrue(total_cost) == TRUE

\* the truth value of total_cost in "if total_cost"
IsNonZero(total_cost) == total_cost # 0

\* calculate_pnl on the portfolio its get_portfolio() call returned: the
\* summary, or the exception of the division
calculate_pnl(portfolio) ==
  LET total_val  == SumField(portfolio, "market_value")
      total_cost == SumField(portfolio, "cost_basis")
      total_pnl  == total_val - total_cost
      winners    == SelectSeq(portfolio, LAMBDA h : h.unrealized_pnl > 0)
      losers     == SelectSeq(portfolio, LAMBDA h : h.unrealized_pnl < 0)
      pct        == IF IsNonZero(total_cost) THEN Divide(total_pnl, total_cost)
                    ELSE Divide(0, 1)
  IN  IF pct.error THEN RaisedBy("calculate_pnl", "ZeroDivisionError")
      ELSE Returned("calculate_pnl",
             [total_market_value |-> FormatMoney(total_val),
              total_cost_basis   |-> FormatMoney(total_cost),
              unrealized_pnl     |-> FormatSignedMoney(total_pnl),
              pnl_percentage     |-> FormatSignedPct(pct),
              winning_positions  |-> Len(winners),
              losing_positions   |-> Len(losers),
              total_positions    |-> Len(portfolio)])

(***************************************************************************)
(* The operations and the two queries                                      *)
(***************************************************************************)
\* <<tx_type, quantity, price>>: a buy, a sell of more, and a buy at
\* price 0
QueryTxInputs == {<<"buy", 2, 2>>, <<"sell", 3, 2>>, <<"buy", 1, 0>>}
QueryPrices == {3}

AddHoldingQuery ==
  \E raw \in LogSymbols, reg \in RegInputs :
    add_holding(raw, reg[1], reg[2])

RecordTransactionQuery ==
  \E raw \in LogSymbols, tx \in QueryTxInputs :
    /\ Len(transactions) < MaxTx
    /\ \E now \in LogTimes : record_transaction(raw, tx[1], tx[2], tx[3], now)

UpdatePriceQuery ==
  \E raw \in LogSymbols, price \in QueryPrices :
    /\ Len(prices) < MaxPrices
    /\ \E now \in LogTimes : update_price(raw, price, now)

\* get_portfolio: one SELECT, then the annotation of its rows
GetPortfolio ==
  /\ result' = Returned("get_portfolio", get_portfolio(holdings))
  /\ UNCHANGED <<store, procs, report>>

\* calculate_pnl: get_portfolio() and the summary of what it returned
CalculatePnl ==
  /\ result' = calculate_pnl(get_portfolio(holdings))
  /\ UNCHANGED <<store, procs, report>>

NextQuery ==
  \/ AddHoldingQuery \/ RecordTransactionQuery \/ UpdatePriceQuery
  \/ GetPortfolio \/ CalculatePnl

SpecQuery == Init /\ [][NextQuery]_vars

(***************************************************************************)
(* export_report                                                           *)
(***************************************************************************)
\* LIMIT 200
RecentLimit == 200

Min(a, b) == IF a <= b THEN a ELSE b

\* SELECT *: the rows of a table with their rowid as id
SelectAll(table) ==
  [n \in 1..Len(table) |->
     [k \in DOMAIN table[n] \cup {"id"} |->
        IF k = "id" THEN n ELSE table[n][k]]]

\* ORDER BY tx_date ASC over the rows whose tx_date is in dates
RECURSIVE OrderByDateAsc(_, _)
OrderByDateAsc(rows, dates) ==
  IF dates = {} THEN <<>>
  ELSE LET oldest == CHOOSE d \in dates : \A e \in dates : d <= e
       IN  SelectSeq(rows, LAMBDA r : r.tx_date = oldest)
           \o OrderByDateAsc(rows, dates \ {oldest})

\* ORDER BY tx_date DESC over the rows whose tx_date is in dates; rows with
\* equal tx_date come in rowid order, as SQLite's sorter leaves them.  The
\* ISO texts of datetime.now() compare as the times do.
RECURSIVE OrderByDateDesc(_, _)
OrderByDateDesc(rows, dates) ==
  IF dates = {} THEN <<>>
  ELSE LET latest == CHOOSE d \in dates : \A e \in dates : e <= d
       IN  SelectSeq(rows, LAMBDA r : r.tx_date = latest)
           \o OrderByDateDesc(rows, dates \ {latest})

\* SELECT * FROM transactions ORDER BY tx_date DESC LIMIT 200
SelectRecent(txs) ==
  LET rows == SelectAll(txs)
      sorted == OrderByDateDesc(rows, {rows[n].tx_date : n \in 1..Len(rows)})
  IN  SubSeq(sorted, 1, Min(RecentLimit, Len(sorted)))

\* the keys of the report's objects whose values are Python strings
StringKeys ==
  {"symbol", "name", "created_at", "tx_type", "exchange", "tx_date",
   "total_market_value", "total_cost_basis", "unrealized_pnl",
   "pnl_percentage"}
\* the keys of a row of get_portfolio, whose unrealized_pnl is a number
PortfolioStringKeys == {"symbol", "name", "created_at"}

\* a dump that leaves out the members that are not strings
JsonObjectOfStrings(d, string_keys) ==
  [k \in DOMAIN d \cap string_keys |-> [string |-> d[k]]]

\* json.dumps of a dict: a JSON object whose members are JSON strings or
\* JSON numbers
JsonObject(d, string_keys) ==
  [k \in DOMAIN d |->
     IF k \in string_keys THEN [string |-> d[k]] ELSE [number |-> d[k]]]

\* json.dumps(data, indent=2): the JSON document of the report
json_dumps(data) ==
  [exported_at |-> [string |-> data.exported_at],
   generator |-> [string |-> data.generator],
   pnl_summary |-> JsonObject(data.pnl_summary, StringKeys),
   portfolio |->
     [n \in 1..Len(data.portfolio) |->
        JsonObject(data.portfolio[n], PortfolioStringKeys)],
   recent_transactions |->
     [n \in 1..Len(data.recent_transactions) |->
        JsonObject(data.recent_transactions[n], StringKeys)]]

\* json.loads of a JSON object: the dict of its members' values
LoadObject(o) ==
  [k \in DOMAIN o |->
     IF "string" \in DOMAIN o[k] THEN o[k].string ELSE o[k].number]

\* json.loads of the report's document
json_loads(doc) ==
  [exported_at |-> doc.exported_at.string,
   generator |-> doc.generator.string,
   pnl_summary |-> LoadObject(doc.pnl_summary),
   portfolio |->
     [n \in 1..Len(doc.portfolio) |-> LoadObject(doc.portfolio[n])],
   recent_transactions |->
     [n \in 1..Len(doc.recent_transactions) |->
        LoadObject(doc.recent_transactions[n])]]

\* the dict export_report dumps, from what its three reads returned
ReportData(txs, pnl_summary, portfolio, now) ==
  [exported_at |-> now,
   generator |-> "BlackRoad Crypto Tracker v1.0",
   pnl_summary |-> pnl_summary,
   portfolio |-> portfolio,
   recent_transactions |-> txs]

\* export_report in one process alone: the three reads see the same store
export_report(output_path, now) ==
  LET txs == SelectRecent(transactions)
      pnl == calculate_pnl(get_portfolio(holdings))
      portfolio == get_portfolio(holdings)
  IN  /\ IF pnl.outcome = "ok"
         THEN /\ report' = json_dumps(ReportData(txs, pnl.value, portfolio, now))
              /\ result' = Returned("export_report", output_path)
         ELSE /\ result' = RaisedBy("export_report", pnl.outcome)
              /\ UNCHANGED report
      /\ UNCHANGED <<store, procs>>

(***************************************************************************)
(* The operations and export_report on logs of about 200 transactions      *)
(***************************************************************************)
MaxReportLog == 201
\* the lengths of the logs the store starts with
ReportLogLengths == {199, 200}
\* the tx_date of the n-th row of a starting log: one date for all rows, a
\* clock that runs forward, and a clock that was set back
ReportDates ==
  { [n \in 1..MaxReportLog |-> 2],
    [n \in 1..MaxReportLog |-> IF n <= 100 THEN 1 ELSE 2],
    [n \in 1..MaxReportLog |-> IF n <= 150 THEN 3 ELSE 2] }
ReportSymbols == {"eth"}
ReportTxInputs == {<<"buy", 2, 2>>}
ReportTimes == {1, 3}
ReportPrices == {3}
ExportTimes == {4}
OutputPaths == {"crypto_report.json"}

\* the log after length calls of record_transaction for a symbol that is
\* not registered and that the calls of the model leave alone
ReportLog(length, dates) ==
  [n \in 1..length |-> Transaction("DOGE", "buy", 2, 2, dates[n])]

InitReport ==
  /\ holdings = <<>>
  /\ \E length \in ReportLogLengths, dates \in ReportDates :
       transactions = ReportLog(length, dates)
  /\ prices = <<>>
  /\ result = NoResult
  /\ pc = [p \in Procs |-> "idle"]
  /\ writer = "free"
  /\ work = [p \in Procs |-> NoWork]
  /\ local = [p \in Procs |-> NoLocal]
  /\ report = NoReport

AddHoldingReport ==
  \E raw \in ReportSymbols, reg \in RegInputs :
    add_holding(raw, reg[1], reg[2])

RecordTransactionReport ==
  \E raw \in ReportSymbols, tx \in ReportTxInputs :
    /\ Len(transactions) < MaxReportLog
    /\ \E now \in ReportTimes :
         record_transaction(raw, tx[1], tx[2], tx[3], now)

UpdatePriceReport ==
  \E raw \in ReportSymbols, price \in ReportPrices :
    /\ Len(prices) < MaxPrices
    /\ \E now \in LogTimes : update_price(raw, price, now)

ExportReport ==
  \E output_path \in OutputPaths, now \in ExportTimes :
    export_report(output_path, now)

NextReport ==
  \/ AddHoldingReport \/ RecordTransactionReport \/ UpdatePriceReport
  \/ ExportReport

SpecReport == InitReport /\ [][NextReport]_vars

(***************************************************************************)
(* export_report statement by statement, next to processes that write.     *)
(* Each of its three reads opens a connection of its own and runs one      *)
(* SELECT, which in WAL mode sees the database as last committed and waits *)
(* for no lock.                                                            *)
(***************************************************************************)
ExportSymbols == {"btc"}
ExportTxInputs == {<<"buy", 2, 2>>}
ExportPrices == {3}

\* export_report up to its first with-block
er_call(p, output_path, now) ==
  /\ pc[p] = "idle"
  /\ local' = [local EXCEPT ![p] =
       [op |-> "export_report", value |-> output_path, now |-> now,
        txs |-> <<>>, pnl_summary |-> <<>>, portfolio |-> <<>>,
        snapshots |-> {Committed}]]
  /\ pc' = [pc EXCEPT ![p] = "er_txs"]
  /\ UNCHANGED <<store, report, result, writer, work>>

\* SELECT * FROM transactions ORDER BY tx_date DESC LIMIT 200
er_txs(p) ==
  /\ pc[p] = "er_txs"
  /\ local' = [local EXCEPT ![p].txs = SelectRecent(transactions)]
  /\ pc' = [pc EXCEPT ![p] = "er_pnl"]
  /\ UNCHANGED <<store, report, result, writer, work>>

\* "pnl_summary": self.calculate_pnl(), with its own get_portfolio()
er_pnl(p) ==
  LET pnl == calculate_pnl(get_portfolio(holdings))
  IN  /\ pc[p] = "er_pnl"
      /\ IF pnl.outcome = "ok"
         THEN /\ local' = [local EXCEPT ![p].pnl_summary = pnl.value]
              /\ pc' = [pc EXCEPT ![p] = "er_portfolio"]
              /\ UNCHANGED result
         ELSE /\ local' = [local EXCEPT ![p] = NoLocal]
              /\ pc' = [pc EXCEPT ![p] = "idle"]
              /\ result' = RaisedBy("export_report", pnl.outcome)
      /\ UNCHANGED <<store, report, writer, work>>

\* "portfolio": self.get_portfolio()
er_portfolio(p) ==
  /\ pc[p] = "er_portfolio"
  /\ local' = [local EXCEPT ![p].portfolio = get_portfolio(holdings)]
  /\ pc' = [pc EXCEPT ![p] = "er_write"]
  /\ UNCHANGED <<store, report, result, writer, work>>

\* Path(output_path).write_text(json.dumps(data, indent=2))
er_write(p) ==
  /\ pc[p] = "er_write"
  /\ report' = json_dumps(ReportData(local[p].txs, local[p].pnl_summary,
                                     local[p].portfolio, local[p].now))
  /\ result' = Returned("export_report", local[p].value)
  /\ local' = [local EXCEPT ![p] = NoLocal]
  /\ pc' = [pc EXCEPT ![p] = "idle"]
  /\ UNCHANGED <<store, writer, work>>

RtCallExport ==
  \E p \in Procs, raw \in ExportSymbols, tx \in ExportTxInputs :
    \E now \in LogTimes : rt_call(p, raw, tx[1], tx[2], tx[3], now)
UpCallExport ==
  \E p \in Procs, raw \in ExportSymbols, price \in ExportPrices :
    \E now \in LogTimes : up_call(p, raw, price, now)
AhCallExport ==
  \E p \in Procs, raw \in ExportSymbols, reg \in RegInputs :
    ah_call(p, raw, reg[1], reg[2])
ErCall ==
  \E p \in Procs, output_path \in OutputPaths, now \in ExportTimes :
    er_call(p, output_path, now)
ErTxs == \E p \in Procs : er_txs(p)
ErPnl == \E p \in Procs : er_pnl(p)
ErPortfolio == \E p \in Procs : er_portfolio(p)
ErWrite == \E p \in Procs : er_write(p)

NextExport ==
  \/ RtCallExport \/ RtInsert \/ RtSelect \/ RtUpdate
  \/ UpCallExport \/ UpInsert \/ UpUpdate
  \/ AhCallExport \/ AhInsert
  \/ Commit \/ Fail \/ Busy
  \/ ErCall \/ ErTxs \/ ErPnl \/ ErPortfolio \/ ErWrite

SpecExport == Init /\ [][NextExport]_vars

(***************************************************************************)
(* Properties                                                              *)
(***************************************************************************)
RECURSIVE SumOver(_, _)
SumOver(I, val) ==
  IF I = {} THEN 0
  ELSE LET i == CHOOSE j \in I : TRUE
       IN  val[i] + SumOver(I \ {i}, val)

RowsOf(txs, symbol, tx_type) ==
  {i \in 1..Len(txs) : txs[i].symbol = symbol /\ txs[i].tx_type = tx_type}

\* B, L and C of a symbol's log, as sums that do not depend on the order
BoughtQty(txs, symbol) ==
  SumOver(RowsOf(txs, symbol, "buy"), [i \in 1..Len(txs) |-> txs[i].quantity])
SoldQty(txs, symbol) ==
  SumOver(RowsOf(txs, symbol, "sell"), [i \in 1..Len(txs) |-> txs[i].quantity])
BuyCost(txs, symbol) ==
  SumOver(RowsOf(txs, symbol, "buy"),
          [i \in 1..Len(txs) |-> txs[i].quantity * txs[i].price_usd])

\* total_qty = max(0, B - L); avg_cost = C / (B - L) to 8 decimals, or 0
NetOfBuysAndSells(txs, symbol) ==
  LET net == BoughtQty(txs, symbol) - SoldQty(txs, symbol)
  IN  [total_qty |-> Max(0, net),
       avg_cost |-> IF net > 0 THEN Round8(BuyCost(txs, symbol), net)
                    ELSE ZeroCost]

HoldingsOf(hs, symbol) == {i \in 1..Len(hs) : hs[i].symbol = symbol}

HoldingsShow(hs, symbol, agg) ==
  \A i \in HoldingsOf(hs, symbol) :
    hs[i].total_qty = agg.total_qty /\ hs[i].avg_cost = agg.avg_cost

\* C1: after record_transaction on a registered symbol S the holding of S
\* has total_qty = max(0, B - L) and avg_cost = C / (B - L) rounded to 8
\* decimals if B - L > 0, else 0, with B the bought quantity, L the sold
\* quantity and C the cost of the buys over the whole log of S.
C1_HoldingIsNetOfBuysAndSells ==
  [][\A raw \in LogSymbols, tx \in TxInputs, now \in LogTimes :
       ( /\ record_transaction(raw, tx[1], tx[2], tx[3], now)
         /\ HasHolding(holdings, upper(raw)) )
       => /\ result'.outcome = "ok"
          /\ HoldingsShow(holdings', upper(raw),
                          NetOfBuysAndSells(transactions', upper(raw)))]_vars

\* C2: in every reachable state, whatever the order of add_holding,
\* record_transaction and update_price calls (transactions recorded before
\* the symbol is registered included), each holding's total_qty and avg_cost
\* are what the recomputation of record_transaction gives on that symbol's
\* full transaction log.
C2_HoldingIsFoldOfLog ==
  \A i \in 1..Len(holdings) :
    HoldingsShow(holdings, holdings[i].symbol,
                 Recalculate(SelectTransactions(transactions,
                                                holdings[i].symbol)))

IsTx(r, tx_type, quantity, price) ==
  r.symbol = "BTC" /\ r.tx_type = tx_type /\ r.quantity = quantity
  /\ r.price_usd = price

PartialSell(raw, tx, now, i) ==
  /\ tx[1] = "sell"
  /\ record_transaction(raw, tx[1], tx[2], tx[3], now)
  /\ i \in HoldingsOf(holdings, upper(raw))
  /\ holdings[i].total_qty > 0
  /\ holdings'[i].total_qty > 0

C4_RaceOnOneSymbol ==
  \E p \in Procs : \E q \in Procs \ {p} :
    /\ pc[p] = "rt_commit"
    /\ pc[q] = "rt_insert"
    /\ local[p].symbol = local[q].symbol
    /\ HasHolding(holdings, local[p].symbol)
    /\ work[p].transactions = Append(transactions, local[p].value)

\* C4: when processes run record_transaction for one symbol concurrently,
\* the INSERT, the SELECT and the UPDATE of each call are one atomic unit:
\* every commit of a call adds exactly its row to the log that the other
\* calls have committed so far, and leaves the holding's total_qty and
\* avg_cost equal to the recomputation over that whole log (no lost update,
\* no aggregate from a history that misses a committed transaction).
C4_RecordTransactionIsAtomic ==
  [][\A p \in Procs :
       (pc[p] = "rt_commit" /\ pc'[p] = "idle" /\ result'.outcome = "ok")
       => /\ transactions' = Append(transactions, local[p].value)
          /\ Len(holdings') = Len(holdings)
          /\ HoldingsShow(holdings', local[p].symbol,
               Recalculate(SelectTransactions(transactions',
                                              local[p].symbol)))]_vars

\* a call of record_transaction has failed after its INSERT and before its
\* commit, on a registered symbol
C5_FailedAfterInsert ==
  \E p \in Procs :
    /\ local[p].op = "raised"
    /\ local[p].at \in {"rt_select", "rt_update", "rt_commit"}
    /\ Len(holdings) > 0

\* C5: a record_transaction that fails or is interrupted after its row is
\* inserted and before the holding update is committed leaves no partial
\* state: the failing step changes nothing that other operations see, and
\* the log only ever grows in a step that also installs the recomputed
\* aggregate.
C5_NoPartialState ==
  [][/\ \A p \in Procs :
          ( /\ pc[p] \in {"rt_select", "rt_update", "rt_commit"}
            /\ pc'[p] = "idle"
            /\ result'.outcome = "Storage" )
          => UNCHANGED store
     /\ transactions' # transactions
        => \E p \in Procs :
             /\ pc[p] = "rt_commit"
             /\ transactions' = Append(transactions, local[p].value)
             /\ holdings' = UpdateAggregate(holdings, local[p].symbol,
                  Recalculate(SelectTransactions(transactions',
                                                 local[p].symbol)))]_vars

\* C6: record_transaction called with quantity <= 0 fails with InvalidInput
\* and leaves the transaction log, the holdings and the price log unchanged.
C6_NonPositiveQuantityRejected ==
  [][\A raw \in LogSymbols, tx \in TxInputs, now \in LogTimes :
       (tx[2] <= 0 /\ record_transaction(raw, tx[1], tx[2], tx[3], now))
       => /\ result'.outcome = "InvalidInput"
          /\ UNCHANGED store]_vars

\* C7: record_transaction called with a tx_type other than buy or sell fails
\* with InvalidInput and writes nothing: no row is appended and no holding's
\* total_qty or avg_cost changes.
C7_UnknownTypeRejected ==
  [][\A raw \in LogSymbols, tx \in TxInputs, now \in LogTimes :
       ( /\ tx[1] \notin {"buy", "sell"}
         /\ record_transaction(raw, tx[1], tx[2], tx[3], now) )
       => /\ result'.outcome = "InvalidInput"
          /\ transactions' = transactions
          /\ \A i \in 1..Len(holdings) :
               /\ holdings'[i].total_qty = holdings[i].total_qty
               /\ holdings'[i].avg_cost = holdings[i].avg_cost]_vars

\* the log holds two rows and calls of add_holding and update_price have
\* run, the last call after the first row was written
C8_RowsFollowedByCalls ==
  /\ Len(transactions) >= 2
  /\ Len(holdings) >= 1
  /\ Len(prices) >= 1
  /\ result.op \in {"add_holding", "update_price"}

\* C8: the number of persisted transactions of each symbol never decreases
\* and a row, once written, keeps all its fields: no step of add_holding,
\* record_transaction or update_price updates or deletes a transaction (the
\* three queries only SELECT).
C8_LogIsAppendOnly ==
  [][/\ Len(transactions') >= Len(transactions)
     /\ SubSeq(transactions', 1, Len(transactions)) = transactions
     /\ \A symbol \in Symbols :
          Len(SelectTransactions(transactions', symbol))
            >= Len(SelectTransactions(transactions, symbol))]_vars

\* add_holding has just returned for a symbol whose holding, registered
\* under another name at another time, has a quantity and a price
C9_RegisteredAgain ==
  /\ result.op = "add_holding"
  /\ \E i \in 1..Len(holdings) :
       /\ holdings[i].symbol = result.value.symbol
       /\ holdings[i].name # result.value.name
       /\ holdings[i].created_at # result.value.created_at
       /\ holdings[i].total_qty > 0
       /\ holdings[i].current_price > 0

\* C9: add_holding for a symbol that already has a holding, with the same
\* or another name, is a no-op on the store: name, created_at, total_qty,
\* avg_cost and current_price of the holding are unchanged, and there is
\* exactly one holding of each registered symbol.
C9_AddHoldingIsIdempotent ==
  /\ [](\A i \in 1..Len(holdings), j \in 1..Len(holdings) :
          holdings[i].symbol = holdings[j].symbol => i = j)
  /\ [][\A raw \in RawSymbols, reg \in RegisterRegInputs :
          ( /\ add_holding(raw, reg[1], reg[2])
            /\ HasHolding(holdings, upper(raw)) )
          => UNCHANGED store]_vars

\* a sell has just been recorded on a registered symbol whose log accounts
\* for a positive quantity smaller than the one sold
C10_Oversold ==
  /\ result.op = "record_transaction"
  /\ result.value.tx_type = "sell"
  /\ HasHolding(holdings, result.value.symbol)
  /\ Len(transactions) >= 2
  /\ LET before == Recalculate(SelectTransactions(
                     SubSeq(transactions, 1, Len(transactions) - 1),
                     result.value.symbol))
     IN  before.total_qty > 0 /\ result.value.quantity > before.total_qty

\* C10: every holding has total_qty >= 0 in every reachable state; a sell
\* of more than the quantity the log of its symbol accounts for (the
\* holding's total_qty when the holding was registered before the symbol's
\* transactions) returns normally, its row is appended to the log, and the
\* holding's total_qty becomes 0.
C10_OversellClampsToZero ==
  /\ [](\A i \in 1..Len(holdings) : holdings[i].total_qty >= 0)
  /\ [][\A raw \in LogSymbols, tx \in TxInputs, now \in LogTimes :
          ( /\ tx[1] = "sell"
            /\ record_transaction(raw, tx[1], tx[2], tx[3], now)
            /\ tx[2] > Recalculate(SelectTransactions(transactions,
                                                       upper(raw))).total_qty )
          => /\ result' = Returned("record_transaction",
                            Transaction(upper(raw), tx[1], tx[2], tx[3], now))
             /\ transactions' = Append(transactions, result'.value)
             /\ \A i \in HoldingsOf(holdings', upper(raw)) :
                  holdings'[i].total_qty = 0]_vars

\* C11: in every reachable state every holding's avg_cost is non-negative,
\* and avg_cost is 0 whenever the holding's total_qty is 0.
C11_AvgCostNonNegative ==
  \A i \in 1..Len(holdings) :
    /\ holdings[i].avg_cost.whole >= 0
    /\ holdings[i].total_qty = 0 => holdings[i].avg_cost = ZeroCost

\* the price_usd of the most recently inserted PriceRecord of symbol
LatestPrice(ps, symbol) ==
  LET own == SelectSeq(ps, LAMBDA r : r.symbol = symbol)
  IN  own[Len(own)].price_usd

\* C12: in every reachable state, every holding whose symbol has at least
\* one PriceRecord has current_price equal to the price_usd of the most
\* recently inserted PriceRecord of that symbol, whatever the order of the
\* add_holding and update_price calls.
C12_CurrentPriceIsLatestRecord ==
  \A i \in 1..Len(holdings) :
    (\E n \in 1..Len(prices) : prices[n].symbol = holdings[i].symbol)
    => holdings[i].current_price = LatestPrice(prices, holdings[i].symbol)

\* update_price has just returned for a symbol without a holding, the log
\* holds a transaction of a symbol without a holding, and another symbol
\* has a holding with a quantity
C15_LoggedWithoutHolding ==
  /\ result.op = "update_price"
  /\ ~HasHolding(holdings, result.value.symbol)
  /\ \E n \in 1..Len(transactions) :
       ~HasHolding(holdings, transactions[n].symbol)
  /\ \E i \in 1..Len(holdings) : holdings[i].total_qty > 0

\* C15: record_transaction and update_price on a symbol that has no holding
\* return normally: the Transaction or the PriceRecord is appended to its
\* log, no holding is created for the symbol, and every existing holding is
\* left unchanged.
C15_UnregisteredSymbolIsLogged ==
  [][/\ \A raw \in LogSymbols, tx \in TxInputs, now \in LogTimes :
          ( /\ record_transaction(raw, tx[1], tx[2], tx[3], now)
            /\ ~HasHolding(holdings, upper(raw)) )
          => /\ result' = Returned("record_transaction",
                            Transaction(upper(raw), tx[1], tx[2], tx[3], now))
             /\ transactions' = Append(transactions, result'.value)
             /\ holdings' = holdings
             /\ prices' = prices
     /\ \A raw \in LogSymbols, price \in Prices, now \in LogTimes :
          ( /\ update_price(raw, price, now)
            /\ ~HasHolding(holdings, upper(raw)) )
          => /\ result' = Returned("update_price",
                                   PriceRecord(upper(raw), price, now))
             /\ prices' = Append(prices, result'.value)
             /\ holdings' = holdings
             /\ transactions' = transactions]_vars

\* the holdings hs and hs2 differ at most in the given fields of the
\* holding of symbol
SameExcept(hs, hs2, symbol, fields) ==
  /\ Len(hs2) = Len(hs)
  /\ \A i \in 1..Len(hs) :
       /\ DOMAIN hs2[i] = DOMAIN hs[i]
       /\ \A f \in DOMAIN hs[i] :
            hs2[i][f] # hs[i][f] => (hs[i].symbol = symbol /\ f \in fields)

\* record_transaction has just returned for a symbol whose holding has a
\* price set by update_price, while another symbol has a holding with a
\* quantity of its own
C19_BothMutationsOnTwoHoldings ==
  /\ result.op = "record_transaction"
  /\ Len(holdings) = 2
  /\ Len(prices) >= 1
  /\ \E i \in 1..2 :
       /\ holdings[i].symbol = result.value.symbol
       /\ holdings[i].current_price > 0
       /\ holdings[i].total_qty > 0
       /\ holdings[3 - i].total_qty > 0

\* C19: update_price(S, p) appends one PriceRecord and changes at most the
\* current_price of S's holding (every total_qty and avg_cost, the
\* transaction log and all other holdings stay as they are);
\* record_transaction(S, ...) appends one Transaction and changes at most
\* total_qty and avg_cost of S's holding (S's name, created_at and
\* current_price, the price log and the other symbols' holdings stay as they
\* are).
C19_MutationsKeepTheirFrame ==
  [][/\ \A raw \in LogSymbols, price \in Prices, now \in LogTimes :
          update_price(raw, price, now)
          => /\ prices' = Append(prices, PriceRecord(upper(raw), price, now))
             /\ transactions' = transactions
             /\ SameExcept(holdings, holdings', upper(raw), {"current_price"})
     /\ \A raw \in LogSymbols, tx \in TxInputs, now \in LogTimes :
          record_transaction(raw, tx[1], tx[2], tx[3], now)
          => /\ transactions' = Append(transactions,
                  Transaction(upper(raw), tx[1], tx[2], tx[3], now))
             /\ prices' = prices
             /\ SameExcept(holdings, holdings', upper(raw),
                           {"total_qty", "avg_cost"})]_vars

\* get_portfolio has just returned one row while another holding, whose
\* symbol has transaction history, has total_qty 0
C13_SoldOutHoldingLeftOut ==
  /\ result.op = "get_portfolio"
  /\ result.value = get_portfolio(holdings)
  /\ Len(result.value) = 1
  /\ \E i \in 1..Len(holdings) :
       /\ holdings[i].total_qty = 0
       /\ \E n \in 1..Len(transactions) :
            transactions[n].symbol = holdings[i].symbol

\* C13: get_portfolio returns exactly the holdings with total_qty > 0: a
\* holding with total_qty = 0 is never in the result, even if its symbol has
\* transaction history, and every holding with total_qty > 0 is in the
\* result exactly once.
C13_PortfolioIsPositiveHoldings ==
  [][GetPortfolio
     => /\ result'.outcome = "ok"
        /\ {result'.value[n].id : n \in 1..Len(result'.value)}
             = {i \in 1..Len(holdings) : holdings[i].total_qty > 0}
        /\ \A n \in 1..Len(result'.value), m \in 1..Len(result'.value) :
             result'.value[n].id = result'.value[m].id => n = m
        /\ \A n \in 1..Len(result'.value) :
             /\ result'.value[n].symbol = holdings[result'.value[n].id].symbol
             /\ result'.value[n].total_qty > 0]_vars

\* get_portfolio has just returned two rows with different market values,
\* the holding registered later first
C14_LaterHoldingWorthMore ==
  /\ result.op = "get_portfolio"
  /\ Len(result.value) = 2
  /\ result.value[1].id > result.value[2].id
  /\ result.value[1].market_value # result.value[2].market_value

\* C14: the list get_portfolio returns is ordered by descending
\* market_value: of two consecutive entries the earlier one's reported
\* market_value (total_qty * current_price) is greater than or equal to the
\* later one's.
C14_PortfolioIsOrderedByValue ==
  [][GetPortfolio
     => \A n \in 1..(Len(result'.value) - 1) :
          /\ result'.value[n].market_value >= result'.value[n + 1].market_value
          /\ result'.value[n].market_value
               = result'.value[n].total_qty
                 * result'.value[n].current_price * 50]_vars

\* calculate_pnl has just returned for a portfolio with a position that has
\* a market value and a cost basis of 0
C18_PositionWithoutCost ==
  /\ result.op = "calculate_pnl"
  /\ result.outcome = "ok"
  /\ result.value.total_positions >= 1
  /\ result.value.total_cost_basis = "$0.00"
  /\ result.value.total_market_value # "$0.00"

\* C18: calculate_pnl never fails with a division error: when the total
\* cost basis is 0 the overall P&L percentage is 0, and on an empty portfolio
\* (no holding with total_qty > 0) it returns zero total market value, zero
\* total cost basis, zero unrealized P&L, no winning and no losing positions
\* and total_positions = 0.
C18_PnlNeverDividesByZero ==
  [][CalculatePnl
     => /\ result'.outcome = "ok"
        /\ SumField(get_portfolio(holdings), "cost_basis") = 0
           => result'.value.pnl_percentage = "+0.00%"
        /\ (\A i \in 1..Len(holdings) : holdings[i].total_qty <= 0)
           => result'.value =
                [total_market_value |-> "$0.00",
                 total_cost_basis   |-> "$0.00",
                 unrealized_pnl     |-> "$+0.00",
                 pnl_percentage     |-> "+0.00%",
                 winning_positions  |-> 0,
                 losing_positions   |-> 0,
                 total_positions    |-> 0]]_vars

C17_LogLongerThanLimit ==
  /\ result.op = "export_report"
  /\ result.outcome = "ok"
  /\ Len(transactions) > 200
  /\ Len(report.recent_transactions) = 200
  /\ json_loads(report).recent_transactions = SelectRecent(transactions)
  /\ \E n \in 1..Len(transactions) :
       transactions[n].tx_date # transactions[1].tx_date

\* C17: the recent_transactions of an exported report hold min(200, N)
\* transactions, N being the number of persisted transactions of all
\* symbols: each is a row of the log, no row twice, they are listed newest
\* first (non-increasing tx_date), and no omitted transaction is newer than
\* an included one.
C17_RecentTransactionsAreNewest ==
  [][ExportReport
     => LET recent == json_loads(report').recent_transactions
            ids == {recent[n].id : n \in 1..Len(recent)}
        IN  /\ Len(recent) = Min(200, Len(transactions))
            /\ Cardinality(ids) = Len(recent)
            /\ ids \subseteq 1..Len(transactions)
            /\ \A n \in 1..Len(recent) :
                 recent[n] = SelectAll(transactions)[recent[n].id]
            /\ \A n \in 1..(Len(recent) - 1) :
                 recent[n].tx_date >= recent[n + 1].tx_date
            /\ \A m \in (1..Len(transactions)) \ ids :
                 \A n \in 1..Len(recent) :
                   transactions[m].tx_date <= recent[n].tx_date]_vars

\* the three data parts of the document doc are what the three reads of
\* export_report give on the one store state db
DescribesOneState(doc, db) ==
  /\ json_loads(doc).recent_transactions = SelectRecent(db.transactions)
  /\ json_loads(doc).pnl_summary
       = calculate_pnl(get_portfolio(db.holdings)).value
  /\ json_loads(doc).portfolio = get_portfolio(db.holdings)

\* C20: the three data parts of one exported report (recent_transactions,
\* pnl_summary, portfolio) all describe one single store state, one of the
\* states committed from the call of export_report to its end, even when
\* another process commits a record_transaction or an update_price while
\* export_report is running.
C20_ReportIsOneSnapshot ==
  [][\A p \in Procs :
       (pc[p] = "er_write" /\ pc'[p] = "idle")
       => \E db \in local[p].snapshots : DescribesOneState(report', db)]_vars

====
